---- MODULE Spec2Model ----
(***************************************************************************)
(* A model of seer's fault taxonomy (src/error.rs) and of its trait        *)
(* support: obligation resolution, vtable synthesis and the vtable         *)
(* readers (src/traits.rs).                                                *)
(*                                                                         *)
(* Four specifications share the module's variables:                       *)
(*   SpecFault   EvalError, its description, its Display and its           *)
(*               StaticEvalError form                                      *)
(*   SpecTraits  fulfill_obligation and resolve_associated_const           *)
(*   Spec        get_vtable and the vtable readers over the memory engine  *)
(*   SpecReader  read_drop_type_from_vtable over any program memory        *)
(***************************************************************************)
EXTENDS Integers, Sequences, FiniteSets, TLC

VARIABLES
    fault,          \* SpecFault: the EvalError at hand
    fault_out,      \* SpecFault: what the last operation on `fault` returned
    tcx,            \* SpecTraits: what the host type system answers for the program
    tcall,          \* SpecTraits: the last resolver call, its steps and outcome
    memory,         \* Spec: the memory engine's allocations and function table
    prog,           \* Spec: the type and the trait of the interpreted program
    vtables,        \* Spec: the tables get_vtable has returned to the evaluator
    call            \* Spec: the last call, its result and the memory operations it issued

faultVars == <<fault, fault_out>>
traitVars == <<tcx, tcall>>
memVars == <<memory, prog, vtables, call>>
vars == <<fault, fault_out, tcx, tcall, memory, prog, vtables, call>>

\* The value of a variable a specification does not use, and of "nothing yet".
NoValue == [kind |-> "none"]

\* What a call comes back with: Ok(x), Err(e), or a panic.
Ok(x) == [tag |-> "Ok", value |-> x]
Err(e) == [tag |-> "Err", error |-> e]
\* A panic: the process aborts, nothing is returned.
Panic(msg) == [tag |-> "Panic", msg |-> msg]

(***************************************************************************)
(* Payload domains of the fault variants.                                  *)
(***************************************************************************)

\* How many distinct values of each numeric payload (u64, u128) are drawn.
MaxNum == 2
\* How many distinct allocation identifiers a fault's pointer may name.
MaxFaultAlloc == 1

\* u64 and u128 payloads: 0, 8, 16, ...
Numbers == {8 * n : n \in 0..(MaxNum - 1)}

Concrete(n) == [kind |-> "Concrete", value |-> n]
Abstract == [kind |-> "Abstract", value |-> 0]
PointerOffsets == {Concrete(n) : n \in Numbers} \cup {Abstract}

MemoryPointer(alloc_id, offset) == [alloc_id |-> alloc_id, offset |-> offset]
FaultPointers == {MemoryPointer(a, o) : a \in 1..MaxFaultAlloc, o \in PointerOffsets}

Strings == {"", "msg"}
Spans == {"span1", "span2"}
BinOps == {"BitAnd", "Add"}
ConstMathErrs == {"Overflow", "DivisionByZero"}
\* The lifetime-scoped type handles: FnSig<'tcx>, Ty<'tcx>, LayoutError<'tcx>.
FnSigs == {"fn(u8)", "fn()"}
Tys == {"TyA", "TyB"}
LayoutErrors == {"Unknown(TyA)", "SizeOverflow(TyA)"}

(***************************************************************************)
(* EvalError and StaticEvalError.  A variant with no payload is a record   *)
(* holding its tag, a tuple variant names its fields f0, f1, f2, a struct  *)
(* variant keeps its field names.                                          *)
(***************************************************************************)

EvalErrors ==
    {[tag |-> t] : t \in {
        "DanglingPointerDeref", "InvalidMemoryAccess",
        "InvalidFunctionPointer", "InvalidBool", "InvalidDiscriminant",
        "InvalidNullPointerUsage", "ReadPointerAsBytes",
        "ReadBytesAsPointer", "InvalidPointerMath", "ReadUndefBytes",
        "DerefFunctionPointer", "ExecuteMemory", "OverflowingMath",
        "ExecutionTimeLimitReached", "StackFrameLimitReached",
        "CalledClosureAsFunction", "VtableForArgumentlessMethod",
        "ModifiedConstantMemory", "AssumptionNotHeld", "InlineAsm",
        "ReallocatedStaticMemory", "DeallocatedStaticMemory",
        "HeapAllocZeroBytes", "Unreachable", "Panic",
        "ReadFromReturnPointer", "TypeckError"}}
    \cup [tag : {"FunctionPointerTyMismatch"}, f0 : FnSigs, f1 : FnSigs]
    \cup [tag : {"NoMirFor"}, f0 : Strings]
    \cup [tag : {"UnterminatedCString"}, f0 : FaultPointers]
    \cup [tag : {"PointerOutOfBounds"}, ptr : FaultPointers, access : BOOLEAN, allocation_size : Numbers]
    \cup [tag : {"InvalidBoolOp"}, f0 : BinOps]
    \cup [tag : {"Unimplemented"}, f0 : Strings]
    \cup [tag : {"ArrayIndexOutOfBounds"}, f0 : Spans, f1 : Numbers, f2 : Numbers]
    \cup [tag : {"Math"}, f0 : Spans, f1 : ConstMathErrs]
    \cup [tag : {"Intrinsic"}, f0 : Strings]
    \cup [tag : {"InvalidChar"}, f0 : Numbers]
    \cup [tag : {"OutOfMemory"}, allocation_size : Numbers, memory_size : Numbers, memory_usage : Numbers]
    \cup [tag : {"AlignmentCheckFailed"}, required : Numbers, has : Numbers]
    \cup [tag : {"TypeNotPrimitive"}, f0 : Tys]
    \cup [tag : {"Layout"}, f0 : LayoutErrors]
    \cup [tag : {"HeapAllocNonPowerOfTwoAlignment"}, f0 : Numbers]

StaticEvalErrors ==
    {[tag |-> t] : t \in {
        "FunctionPointerTyMismatch", "DanglingPointerDeref",
        "InvalidMemoryAccess", "InvalidFunctionPointer", "InvalidBool",
        "InvalidDiscriminant", "InvalidNullPointerUsage",
        "ReadPointerAsBytes", "ReadBytesAsPointer", "InvalidPointerMath",
        "ReadUndefBytes", "DerefFunctionPointer", "ExecuteMemory",
        "OverflowingMath", "ExecutionTimeLimitReached",
        "StackFrameLimitReached", "CalledClosureAsFunction",
        "VtableForArgumentlessMethod", "ModifiedConstantMemory",
        "AssumptionNotHeld", "InlineAsm", "TypeNotPrimitive",
        "ReallocatedStaticMemory", "DeallocatedStaticMemory", "Layout",
        "HeapAllocZeroBytes", "Unreachable", "Panic",
        "ReadFromReturnPointer", "TypeckError"}}
    \cup [tag : {"NoMirFor"}, f0 : Strings]
    \cup [tag : {"UnterminatedCString"}, f0 : FaultPointers]
    \cup [tag : {"PointerOutOfBounds"}, ptr : FaultPointers, access : BOOLEAN, allocation_size : Numbers]
    \cup [tag : {"InvalidBoolOp"}, f0 : BinOps]
    \cup [tag : {"Unimplemented"}, f0 : Strings]
    \cup [tag : {"ArrayIndexOutOfBounds"}, f0 : Spans, f1 : Numbers, f2 : Numbers]
    \cup [tag : {"Math"}, f0 : Spans, f1 : ConstMathErrs]
    \cup [tag : {"Intrinsic"}, f0 : Strings]
    \cup [tag : {"InvalidChar"}, f0 : Numbers]
    \cup [tag : {"OutOfMemory"}, allocation_size : Numbers, memory_size : Numbers, memory_usage : Numbers]
    \cup [tag : {"AlignmentCheckFailed"}, required : Numbers, has : Numbers]
    \cup [tag : {"HeapAllocNonPowerOfTwoAlignment"}, f0 : Numbers]


\* The variants of EvalError that carry no payload.
UnitVariants == {v.tag : v \in {e \in EvalErrors : DOMAIN e = {"tag"}}}

(***************************************************************************)
(* impl Error for EvalError: description().                                *)
(***************************************************************************)

\* The arms of description() that return a string literal (a string of this
\* notation cannot hold a backquote: the two of AssumptionNotHeld are written ').
description_literal(v) ==
    CASE v.tag = "FunctionPointerTyMismatch" ->
            "tried to call a function through a function pointer of a different type"
      [] v.tag = "InvalidMemoryAccess" ->
            "tried to access memory through an invalid pointer"
      [] v.tag = "DanglingPointerDeref" ->
            "dangling pointer was dereferenced"
      [] v.tag = "InvalidFunctionPointer" ->
            "tried to use an integer pointer or a dangling pointer as a function pointer"
      [] v.tag = "InvalidBool" ->
            "invalid boolean value read"
      [] v.tag = "InvalidDiscriminant" ->
            "invalid enum discriminant value read"
      [] v.tag = "PointerOutOfBounds" ->
            "pointer offset outside bounds of allocation"
      [] v.tag = "InvalidNullPointerUsage" ->
            "invalid use of NULL pointer"
      [] v.tag = "ReadPointerAsBytes" ->
            "a raw memory access tried to access part of a pointer value as raw bytes"
      [] v.tag = "ReadBytesAsPointer" ->
            "a memory access tried to interpret some bytes as a pointer"
      [] v.tag = "InvalidPointerMath" ->
            "attempted to do math or a comparison on pointers into different allocations"
      [] v.tag = "ReadUndefBytes" ->
            "attempted to read undefined bytes"
      [] v.tag = "InvalidBoolOp" ->
            "invalid boolean operation"
      [] v.tag = "DerefFunctionPointer" ->
            "tried to dereference a function pointer"
      [] v.tag = "ExecuteMemory" ->
            "tried to treat a memory pointer as a function pointer"
      [] v.tag = "ArrayIndexOutOfBounds" ->
            "array index out of bounds"
      [] v.tag = "Math" ->
            "mathematical operation failed"
      [] v.tag = "Intrinsic" ->
            "intrinsic failed"
      [] v.tag = "OverflowingMath" ->
            "attempted to do overflowing math"
      [] v.tag = "NoMirFor" ->
            "mir not found"
      [] v.tag = "InvalidChar" ->
            "tried to interpret an invalid 32-bit value as a char"
      [] v.tag = "OutOfMemory" ->
            "could not allocate more memory"
      [] v.tag = "ExecutionTimeLimitReached" ->
            "reached the configured maximum execution time"
      [] v.tag = "StackFrameLimitReached" ->
            "reached the configured maximum number of stack frames"
      [] v.tag = "AlignmentCheckFailed" ->
            "tried to execute a misaligned read or write"
      [] v.tag = "CalledClosureAsFunction" ->
            "tried to call a closure through a function pointer"
      [] v.tag = "VtableForArgumentlessMethod" ->
            "tried to call a vtable function without arguments"
      [] v.tag = "ModifiedConstantMemory" ->
            "tried to modify constant memory"
      [] v.tag = "AssumptionNotHeld" ->
            "'assume' argument was false"  \* the source quotes assume in backquotes
      [] v.tag = "InlineAsm" ->
            "miri does not support inline assembly"
      [] v.tag = "TypeNotPrimitive" ->
            "expected primitive type, got nonprimitive"
      [] v.tag = "ReallocatedStaticMemory" ->
            "tried to reallocate static memory"
      [] v.tag = "DeallocatedStaticMemory" ->
            "tried to deallocate static memory"
      [] v.tag = "Layout" ->
            "rustc layout computation failed"
      [] v.tag = "UnterminatedCString" ->
            "attempted to get length of a null terminated string, but no null found before end of allocation"
      [] v.tag = "HeapAllocZeroBytes" ->
            "tried to re-, de- or allocate zero bytes on the heap"
      [] v.tag = "HeapAllocNonPowerOfTwoAlignment" ->
            "tried to re-, de-, or allocate heap memory with alignment that is not a power of two"
      [] v.tag = "Unreachable" ->
            "entered unreachable code"
      [] v.tag = "Panic" ->
            "the evaluated program panicked"
      [] v.tag = "ReadFromReturnPointer" ->
            "tried to read from the return pointer"
      [] v.tag = "TypeckError" ->
            "encountered constants with type errors, stopping evaluation"


\* A slip description() could have: Intrinsic's message returned like Unimplemented's.
description_intrinsic_msg(v) ==
    IF v.tag \in {"Unimplemented", "Intrinsic"} THEN v.f0 ELSE description_literal(v)

\* description(): `EvalError::Unimplemented(ref msg) => msg`, a literal otherwise.
description(v) ==
    IF v.tag = "Unimplemented" THEN v.f0 ELSE description_literal(v)

(***************************************************************************)
(* impl fmt::Display for EvalError.  What fmt() writes is the sequence of  *)
(* the pieces of its format string: the literal text between the           *)
(* placeholders and, per placeholder, the formatted argument.  A number is *)
(* formatted to its decimal digits.                                        *)
(***************************************************************************)

\* The decimal digits `{}` writes for an unsigned integer, most significant first.
RECURSIVE Decimal(_)
Decimal(n) ==
    IF n < 10 THEN <<n>> ELSE Append(Decimal(n \div 10), n % 10)

\* Literal text of a format string.
Lit(s) == [lit |-> s]
\* `{}` of a string or of a type handle.
Arg(s) == [display |-> s]
\* `{:?}` of a span or of an error.
Dbg(s) == [debug |-> s]
\* `{}` of an integer, and of an allocation identifier (which displays its number).
Num(n) == [digits |-> Decimal(n)]
\* `{}` of the u64 that a wrapping subtraction leaves k below 2^64.
NumBelowZero(k) == [digits_of_2_64_minus |-> Decimal(k)]

\* A slip the arm could have: the offset and the allocation size exchanged.
fmt_pointer_out_of_bounds_swapped(ptr, access, allocation_size) ==
    IF ptr.offset.kind = "Concrete"
    THEN Ok(<<Arg(IF access THEN "memory access" ELSE "pointer computed"),
              Lit(" at offset "), Num(allocation_size),
              Lit(", outside bounds of allocation "), Num(ptr.alloc_id),
              Lit(" which has size "), Num(ptr.offset.value)>>)
    ELSE Panic("not implemented")

\* The PointerOutOfBounds arm: the message for PointerOffset::Concrete,
\* `_ => unimplemented!()` for any other offset, a panic whose text is the
\* standard library's ("not implemented").
fmt_pointer_out_of_bounds(ptr, access, allocation_size) ==
    IF ptr.offset.kind = "Concrete"
    THEN Ok(<<Arg(IF access THEN "memory access" ELSE "pointer computed"),
              Lit(" at offset "), Num(ptr.offset.value),
              Lit(", outside bounds of allocation "), Num(ptr.alloc_id),
              Lit(" which has size "), Num(allocation_size)>>)
    ELSE Panic("not implemented")

\* The OutOfMemory arm.  `memory_size - memory_usage` is a u64 subtraction: below
\* zero it panics in a build with overflow checks and wraps in one without.
fmt_out_of_memory(allocation_size, memory_size, memory_usage, overflow_checks) ==
    IF memory_usage > memory_size /\ overflow_checks
    THEN Panic("attempt to subtract with overflow")
    ELSE Ok(<<Lit("tried to allocate "), Num(allocation_size),
              Lit(" more bytes, but only "),
              IF memory_usage > memory_size
                  THEN NumBelowZero(memory_usage - memory_size)
                  ELSE Num(memory_size - memory_usage),
              Lit(" bytes are free of the "), Num(memory_size),
              Lit(" byte memory")>>)

\* fmt(): ten arms with a message of their own, description() for the rest.
fmt(v, overflow_checks) ==
    CASE v.tag = "PointerOutOfBounds" ->
            fmt_pointer_out_of_bounds(v.ptr, v.access, v.allocation_size)
      [] v.tag = "NoMirFor" ->
            Ok(<<Lit("no mir for '"), Arg(v.f0), Lit("'")>>)  \* backquotes in the source
      [] v.tag = "FunctionPointerTyMismatch" ->
            Ok(<<Lit("tried to call a function with sig "), Arg(v.f0),
                 Lit(" through a function pointer of type "), Arg(v.f1)>>)
      [] v.tag = "ArrayIndexOutOfBounds" ->
            Ok(<<Lit("index out of bounds: the len is "), Num(v.f1),
                 Lit(" but the index is "), Num(v.f2), Lit(" at "), Dbg(v.f0)>>)
      [] v.tag = "Math" ->
            Ok(<<Dbg(v.f1), Lit(" at "), Dbg(v.f0)>>)
      [] v.tag = "InvalidChar" ->
            Ok(<<Lit("tried to interpret an invalid 32-bit value as a char: "),
                 Num(v.f0)>>)
      [] v.tag = "OutOfMemory" ->
            fmt_out_of_memory(v.allocation_size, v.memory_size, v.memory_usage,
                              overflow_checks)
      [] v.tag = "AlignmentCheckFailed" ->
            Ok(<<Lit("tried to access memory with alignment "), Num(v.has),
                 Lit(", but alignment "), Num(v.required), Lit(" is required")>>)
      [] v.tag = "TypeNotPrimitive" ->
            Ok(<<Lit("expected primitive type, got "), Arg(v.f0)>>)
      [] v.tag = "Layout" ->
            Ok(<<Lit("rustc layout computation failed: "), Dbg(v.f0)>>)
      [] OTHER -> Ok(<<Arg(description(v))>>)

(***************************************************************************)
(* impl From<EvalError> for StaticEvalError.                               *)
(***************************************************************************)

\* The arms of from() for the variants without payload.
FromUnit(v) ==
    CASE v.tag = "InvalidMemoryAccess" ->
            [tag |-> "InvalidMemoryAccess"]
      [] v.tag = "DanglingPointerDeref" ->
            [tag |-> "DanglingPointerDeref"]
      [] v.tag = "InvalidFunctionPointer" ->
            [tag |-> "InvalidFunctionPointer"]
      [] v.tag = "InvalidBool" ->
            [tag |-> "InvalidBool"]
      [] v.tag = "InvalidDiscriminant" ->
            [tag |-> "InvalidDiscriminant"]
      [] v.tag = "InvalidNullPointerUsage" ->
            [tag |-> "InvalidNullPointerUsage"]
      [] v.tag = "ReadPointerAsBytes" ->
            [tag |-> "ReadPointerAsBytes"]
      [] v.tag = "ReadBytesAsPointer" ->
            [tag |-> "ReadBytesAsPointer"]
      [] v.tag = "InvalidPointerMath" ->
            [tag |-> "InvalidPointerMath"]
      [] v.tag = "ReadUndefBytes" ->
            [tag |-> "ReadUndefBytes"]
      [] v.tag = "DerefFunctionPointer" ->
            [tag |-> "DerefFunctionPointer"]
      [] v.tag = "ExecuteMemory" ->
            [tag |-> "ExecuteMemory"]
      [] v.tag = "OverflowingMath" ->
            [tag |-> "OverflowingMath"]
      [] v.tag = "ExecutionTimeLimitReached" ->
            [tag |-> "ExecutionTimeLimitReached"]
      [] v.tag = "StackFrameLimitReached" ->
            [tag |-> "StackFrameLimitReached"]
      [] v.tag = "CalledClosureAsFunction" ->
            [tag |-> "CalledClosureAsFunction"]
      [] v.tag = "VtableForArgumentlessMethod" ->
            [tag |-> "VtableForArgumentlessMethod"]
      [] v.tag = "ModifiedConstantMemory" ->
            [tag |-> "ModifiedConstantMemory"]
      [] v.tag = "AssumptionNotHeld" ->
            [tag |-> "AssumptionNotHeld"]
      [] v.tag = "InlineAsm" ->
            [tag |-> "InlineAsm"]
      [] v.tag = "ReallocatedStaticMemory" ->
            [tag |-> "ReallocatedStaticMemory"]
      [] v.tag = "DeallocatedStaticMemory" ->
            [tag |-> "DeallocatedStaticMemory"]
      [] v.tag = "HeapAllocZeroBytes" ->
            [tag |-> "HeapAllocZeroBytes"]
      [] v.tag = "Unreachable" ->
            [tag |-> "Unreachable"]
      [] v.tag = "Panic" ->
            [tag |-> "Panic"]
      [] v.tag = "ReadFromReturnPointer" ->
            [tag |-> "ReadFromReturnPointer"]
      [] v.tag = "TypeckError" ->
            [tag |-> "TypeckError"]

\* The arms of from() for the variants with a payload.
FromPayload(v) ==
    CASE v.tag = "FunctionPointerTyMismatch" ->
            [tag |-> "FunctionPointerTyMismatch"]
      [] v.tag = "PointerOutOfBounds" ->
            [tag |-> "PointerOutOfBounds", ptr |-> v.ptr, access |-> v.access, allocation_size |-> v.allocation_size]
      [] v.tag = "InvalidBoolOp" ->
            [tag |-> "InvalidBoolOp", f0 |-> v.f0]
      [] v.tag = "Unimplemented" ->
            [tag |-> "Unimplemented", f0 |-> v.f0]
      [] v.tag = "ArrayIndexOutOfBounds" ->
            [tag |-> "ArrayIndexOutOfBounds", f0 |-> v.f0, f1 |-> v.f1, f2 |-> v.f2]
      [] v.tag = "Math" ->
            [tag |-> "Math", f0 |-> v.f0, f1 |-> v.f1]
      [] v.tag = "Intrinsic" ->
            [tag |-> "Intrinsic", f0 |-> v.f0]
      [] v.tag = "NoMirFor" ->
            [tag |-> "NoMirFor", f0 |-> v.f0]
      [] v.tag = "InvalidChar" ->
            [tag |-> "InvalidChar", f0 |-> v.f0]
      [] v.tag = "OutOfMemory" ->
            [tag |-> "OutOfMemory", allocation_size |-> v.allocation_size, memory_size |-> v.memory_size, memory_usage |-> v.memory_usage]
      [] v.tag = "AlignmentCheckFailed" ->
            [tag |-> "AlignmentCheckFailed", required |-> v.required, has |-> v.has]
      [] v.tag = "TypeNotPrimitive" ->
            [tag |-> "TypeNotPrimitive"]
      [] v.tag = "Layout" ->
            [tag |-> "Layout"]
      [] v.tag = "UnterminatedCString" ->
            [tag |-> "UnterminatedCString", f0 |-> v.f0]
      [] v.tag = "HeapAllocNonPowerOfTwoAlignment" ->
            [tag |-> "HeapAllocNonPowerOfTwoAlignment", f0 |-> v.f0]

\* A slip from() could have: ArrayIndexOutOfBounds(a, b, c) rebuilt as (a, c, b).
From_swapped_index(v) ==
    IF v.tag = "ArrayIndexOutOfBounds"
    THEN [tag |-> "ArrayIndexOutOfBounds", f0 |-> v.f0, f1 |-> v.f2, f2 |-> v.f1]
    ELSE IF v.tag \in UnitVariants THEN FromUnit(v) ELSE FromPayload(v)

\* from(): one arm per variant, no wildcard arm.
From(v) ==
    IF v.tag \in UnitVariants THEN FromUnit(v) ELSE FromPayload(v)

(***************************************************************************)
(* SpecFault: a fault is raised, then described or converted.              *)
(***************************************************************************)

InitFault ==
    /\ fault \in EvalErrors
    /\ fault_out = NoValue
    /\ tcx = NoValue /\ tcall = NoValue
    /\ memory = NoValue /\ prog = NoValue /\ vtables = NoValue /\ call = NoValue

\* A panic of fmt() has not ended the process.
FaultRunning ==
    IF fault_out = NoValue THEN TRUE
    ELSE IF fault_out.op # "fmt" THEN TRUE
    ELSE fault_out.value.tag # "Panic"

\* Some operation of the machine returns Err(e).
Raise ==
    /\ FaultRunning
    /\ \E e \in EvalErrors : fault' = e
    /\ fault_out' = NoValue
    /\ UNCHANGED <<traitVars, memVars>>

\* description() is called on the fault.
Describe ==
    /\ FaultRunning
    /\ fault_out' = [op |-> "description", value |-> description(fault)]
    /\ UNCHANGED <<fault, traitVars, memVars>>

\* The fault is converted: StaticEvalError::from(fault).
Convert ==
    /\ FaultRunning
    /\ fault_out' = [op |-> "from", value |-> From(fault)]
    /\ UNCHANGED <<fault, traitVars, memVars>>

\* The fault is formatted with `{}`, in a build with or without overflow checks.
Display ==
    /\ FaultRunning
    /\ \E overflow_checks \in BOOLEAN :
          fault_out' = [op |-> "fmt", value |-> fmt(fault, overflow_checks)]
    /\ UNCHANGED <<fault, traitVars, memVars>>

NextFault == Raise \/ Describe \/ Convert \/ Display

SpecFault == InitFault /\ [][NextFault]_vars

(***************************************************************************)
(* The host type system, as far as traits.rs consults it.  Its answers are *)
(* inputs: what select() returns for an obligation, whether each nested    *)
(* obligation can be proved and which inference variables proving it       *)
(* unifies, and the associated items of an impl.                           *)
(***************************************************************************)

\* The longest list of nested obligations a selection carries.
MaxNested == 2
\* The longest list of associated items an impl has.
MaxItems == 2

\* The sequences over S of length at most n.
SeqsUpTo(S, n) == UNION {[1..k -> S] : k \in 0..n}

\* Type inference variables of the session, and region names.
InferVars == {"?T"}
Regions == {"'a"}

\* A substitution list: its type parameters, and the inference variables and
\* regions that occur in it.
SubstsOf(params) == [params : {params}, vars : SUBSET InferVars, regions : SUBSET Regions]
\* The substitutions a caller passes: those of a type-checked reference.
CallerSubsts == {[params |-> "[TyA]", vars |-> {}, regions |-> {}]}

\* A nested obligation: whether it can be proved, and what proving it unifies.
Obligations == [holds : BOOLEAN, unifies : SUBSET InferVars]

\* traits::Vtable<'tcx, N>: VtableImpl carries impl_def_id, substs and the nested
\* list; the other kinds (here VtableParam) carry the nested list.
VtableKinds == {"VtableImpl", "VtableParam"}
Selections ==
    [kind : VtableKinds, impl_def_id : {"impl_Tr_for_TyA"},
     substs : SubstsOf("[impl TyA]"), nested : SeqsUpTo(Obligations, MaxNested)]

\* SelectionResult: Result<Option<Selection>, SelectionError>.
SelectResults ==
    {[tag |-> "Err"], [tag |-> "OkNone"]}
    \cup {[tag |-> "OkSome", selection |-> s] : s \in Selections}

\* How a call ends: it returns a value, or the process aborts (a panic).
Return(value, steps) == [kind |-> "return", value |-> value, steps |-> steps]
Abort(msg, steps) == [kind |-> "abort", msg |-> msg, steps |-> steps]

\* FulfillmentContext::select_all_or_error: the obligations that cannot be proved.
select_all_or_error(fulfill_cx) ==
    {i \in 1..Len(fulfill_cx) : ~fulfill_cx[i].holds}

\* What the session has unified once the worklist is drained.
Unified(fulfill_cx) == UNION {fulfill_cx[i].unifies : i \in 1..Len(fulfill_cx)}

\* InferCtxt::resolve_type_vars_if_possible on a Vtable.
resolve_type_vars_if_possible(unified, result) ==
    [result EXCEPT !.substs.vars = @ \ unified]

\* TyCtxt::erase_regions on a Vtable.
erase_regions(result) == [result EXCEPT !.substs.regions = {}]

\* TyCtxt::lift_to_global: None while an inference variable is left.
lift_to_global(result) ==
    IF result.substs.vars = {} THEN [tag |-> "Some", value |-> result] ELSE [tag |-> "None"]

\* A slip the drain could have: the errors of select_all_or_error are dropped.
drain_ignoring_errors(fulfill_cx, result) ==
    LET resolved == resolve_type_vars_if_possible(Unified(fulfill_cx), result)
        erased == erase_regions(resolved)
        lifted == lift_to_global(erased)
        steps == <<"drain", "resolve", "erase", "lift">>
    IN  IF lifted.tag = "Some"
        THEN Return(lifted.value, steps)
        ELSE Abort("Uninferred types/regions", steps)

\* drain_fulfillment_cx_or_panic.
drain_fulfillment_cx_or_panic(fulfill_cx, result) ==
    IF select_all_or_error(fulfill_cx) # {}
    THEN Abort("Encountered errors resolving bounds after type-checking", <<"drain">>)
    ELSE LET resolved == resolve_type_vars_if_possible(Unified(fulfill_cx), result)
             erased == erase_regions(resolved)
             lifted == lift_to_global(erased)
             steps == <<"drain", "resolve", "erase", "lift">>
         IN  IF lifted.tag = "Some"
             THEN Return(lifted.value, steps)
             ELSE Abort("Uninferred types/regions", steps)

\* EvalContext::fulfill_obligation, given what select() answers for trait_ref.
fulfill_obligation(selected) ==
    IF selected.tag # "OkSome"
    THEN Abort("called unwrap() on an Err or a None value", <<"select">>)
    ELSE LET selection == selected.selection
             \* selection.map registers each nested obligation and leaves () for it
             fulfill_cx == selection.nested
             vtable == [selection EXCEPT !.nested = [i \in DOMAIN selection.nested |-> "()"]]
             drained == drain_fulfillment_cx_or_panic(fulfill_cx, vtable)
         IN  [drained EXCEPT !.steps =
                 <<"select">> \o [i \in 1..Len(fulfill_cx) |-> "register"] \o @]


(***************************************************************************)
(* resolve_associated_const.                                               *)
(***************************************************************************)

None == [tag |-> "None"]
Some(x) == [tag |-> "Some", value |-> x]

\* A DefId, told by the item's owner (a trait, an impl or the crate), its kind
\* and its name.
DefId(owner, kind, name) == [owner |-> owner, kind |-> kind, name |-> name]
Traits == {"Tr"}
ItemNames == {"K", "J"}
\* The constants a program refers to: one owned by no trait, the trait's own.
ConstDefIds ==
    {DefId("crate", "Const", "K")} \cup {DefId(tr, "Const", n) : tr \in Traits, n \in ItemNames}
\* The items an impl can hold (ty::AssociatedItem: def_id, kind, name).
ImplItems ==
    {[def_id |-> DefId("impl_Tr_for_TyA", k, n), kind |-> k, name |-> n] :
        k \in {"Const", "Type"}, n \in ItemNames}
\* tcx.associated_items(impl): the items of an impl, each once, in order.
AssociatedItemLists ==
    {l \in SeqsUpTo(ImplItems, MaxItems) : \A i, j \in DOMAIN l : l[i] = l[j] => i = j}

\* tcx.trait_of_item and tcx.item_name.
trait_of_item(def_id) == IF def_id.owner \in Traits THEN Some(def_id.owner) ELSE None
item_name(def_id) == def_id.name

\* ty::Instance::new.
Instance(def_id, substs) == [def |-> def_id, substs |-> substs]

\* Iterator::find: the first item that satisfies the test, if any.
FindAssocConst(items, name) ==
    LET hits == {i \in DOMAIN items : items[i].kind = "Const" /\ items[i].name = name}
    IN  IF hits = {} THEN None
        ELSE Some(items[CHOOSE i \in hits : \A j \in hits : i <= j])

\* The same search with the test on the item's kind forgotten.
FindByNameOnly(items, name) ==
    LET hits == {i \in DOMAIN items : items[i].name = name}
    IN  IF hits = {} THEN None
        ELSE Some(items[CHOOSE i \in hits : \A j \in hits : i <= j])

\* A slip resolve_associated_const could have: the impl's item is found by name alone.
resolve_associated_const_by_name(def_id, substs, selected, impl_items) ==
    IF trait_of_item(def_id).tag = "Some"
    THEN LET vtable == fulfill_obligation(selected)
             found == FindByNameOnly(impl_items, item_name(def_id))
         IN  IF vtable.kind = "abort" THEN vtable
             ELSE IF vtable.value.kind = "VtableImpl" /\ found.tag = "Some"
                  THEN Return(Instance(found.value.def_id, vtable.value.substs), vtable.steps)
                  ELSE Return(Instance(def_id, substs), vtable.steps)
    ELSE Return(Instance(def_id, substs), <<>>)

\* EvalContext::resolve_associated_const, given what select() answers for the
\* trait reference and the associated items of the impl it resolves to.
resolve_associated_const(def_id, substs, selected, impl_items) ==
    IF trait_of_item(def_id).tag = "Some"
    THEN LET vtable == fulfill_obligation(selected)
             found == FindAssocConst(impl_items, item_name(def_id))
         IN  IF vtable.kind = "abort" THEN vtable
             ELSE IF vtable.value.kind = "VtableImpl" /\ found.tag = "Some"
                  THEN Return(Instance(found.value.def_id, vtable.value.substs), vtable.steps)
                  ELSE Return(Instance(def_id, substs), vtable.steps)
    ELSE Return(Instance(def_id, substs), <<>>)

(***************************************************************************)
(* SpecTraits: the evaluator calls the resolver.                           *)
(***************************************************************************)

InitTraits ==
    /\ tcx \in [selected : SelectResults, impl_items : AssociatedItemLists]
    /\ tcall = NoValue
    /\ fault = NoValue /\ fault_out = NoValue
    /\ memory = NoValue /\ prog = NoValue /\ vtables = NoValue /\ call = NoValue

FulfillObligation ==
    /\ tcall' = [fn |-> "fulfill_obligation", out |-> fulfill_obligation(tcx.selected)]
    /\ UNCHANGED <<tcx, faultVars, memVars>>

ResolveAssociatedConst ==
    /\ \E def_id \in ConstDefIds, substs \in CallerSubsts :
        tcall' = [fn |-> "resolve_associated_const", def_id |-> def_id, substs |-> substs,
                  out |-> resolve_associated_const(def_id, substs, tcx.selected,
                                                   tcx.impl_items)]
    /\ UNCHANGED <<tcx, faultVars, memVars>>

NextTraits == FulfillObligation \/ ResolveAssociatedConst

SpecTraits == InitTraits /\ [][NextTraits]_vars


(***************************************************************************)
(* The memory engine, as far as traits.rs calls it.  An allocation is a    *)
(* run of pointer-sized slots; every access of traits.rs is to a whole     *)
(* slot.  A slot is undefined, holds plain bytes (an integer) or holds a   *)
(* pointer (bytes with a relocation).                                      *)
(***************************************************************************)

\* A unit fault.
Fault(tag) == [tag |-> tag]

Undef == [tag |-> "Undef"]
Bytes(n) == [tag |-> "Bytes", value |-> n]
Ptr(p) == [tag |-> "Ptr", ptr |-> p]

\* A pointer to byte `offset` of allocation `alloc_id`.
PtrTo(alloc_id, offset) == MemoryPointer(alloc_id, Concrete(offset))

\* Memory::new: no allocation, no function, identifiers from 1 (0 is reserved).
NewMemory(pointer_size, memory_size) ==
    [pointer_size |-> pointer_size, memory_size |-> memory_size, memory_usage |-> 0,
     allocs |-> <<>>, functions |-> <<>>, next_id |-> 1]

\* Memory::pointer_size.
pointer_size(m) == m.pointer_size

\* MemoryPointer::offset: the pointer i bytes further (no offset of the model
\* comes near the overflow of the target's usize).
offset(ptr, i) == PtrTo(ptr.alloc_id, ptr.offset.value + i)

\* The slot a pointer names.
SlotOf(m, ptr) == ptr.offset.value \div m.pointer_size

\* Memory::allocate: a fresh allocation of undefined bytes.
allocate(m, size, align) ==
    IF m.memory_size - m.memory_usage < size
    THEN [mem |-> m,
          res |-> Err([tag |-> "OutOfMemory", allocation_size |-> size,
                       memory_size |-> m.memory_size, memory_usage |-> m.memory_usage])]
    ELSE LET id == m.next_id
             alloc == [size |-> size, align |-> align, static_kind |-> "NotStatic",
                       cells |-> [k \in 0..((size \div m.pointer_size) - 1) |-> Undef]]
         IN  [mem |-> [m EXCEPT !.allocs = (id :> alloc) @@ @, !.next_id = id + 1,
                                !.memory_usage = @ + size],
              res |-> Ok(PtrTo(id, 0))]

\* The function allocation of an instance, if it has one.
FnAllocOf(m, instance) == {id \in DOMAIN m.functions : m.functions[id] = instance}

\* Memory::create_fn_alloc: the function pointer of an instance, one per instance.
create_fn_alloc(m, instance) ==
    IF FnAllocOf(m, instance) # {}
    THEN [mem |-> m, res |-> PtrTo(CHOOSE id \in FnAllocOf(m, instance) : TRUE, 0)]
    ELSE [mem |-> [m EXCEPT !.functions = (m.next_id :> instance) @@ @,
                            !.next_id = @ + 1],
          res |-> PtrTo(m.next_id, 0)]

\* Memory::get: the fault of reading through ptr, or "none".
ReadFault(m, ptr) ==
    IF ptr.alloc_id \in DOMAIN m.functions THEN Fault("DerefFunctionPointer")
    ELSE IF ptr.alloc_id \notin DOMAIN m.allocs THEN Fault("DanglingPointerDeref")
    ELSE IF ptr.offset.value + m.pointer_size > m.allocs[ptr.alloc_id].size
    THEN [tag |-> "PointerOutOfBounds", ptr |-> ptr, access |-> TRUE,
          allocation_size |-> m.allocs[ptr.alloc_id].size]
    ELSE NoValue

\* Memory::get_mut: as get, and immutable static memory cannot be written.
WriteFault(m, ptr) ==
    IF ptr.alloc_id \in DOMAIN m.functions THEN Fault("DerefFunctionPointer")
    ELSE IF ptr.alloc_id \notin DOMAIN m.allocs THEN Fault("DanglingPointerDeref")
    ELSE IF m.allocs[ptr.alloc_id].static_kind = "Immutable"
    THEN Fault("ModifiedConstantMemory")
    ELSE ReadFault(m, ptr)

\* A slot is overwritten.
WriteCell(m, dest, cell) ==
    IF WriteFault(m, dest) # NoValue
    THEN [mem |-> m, res |-> Err(WriteFault(m, dest))]
    ELSE [mem |-> [m EXCEPT !.allocs[dest.alloc_id].cells[SlotOf(m, dest)] = cell],
          res |-> Ok("()")]

\* Memory::write_ptr and Memory::write_usize.
write_ptr(m, dest, ptr) == WriteCell(m, dest, Ptr(ptr))
write_usize(m, dest, n) == WriteCell(m, dest, Bytes(n))

\* Memory::read_ptr: a PrimVal (Undef for undefined bytes).
read_ptr(m, ptr) ==
    IF ReadFault(m, ptr) # NoValue THEN Err(ReadFault(m, ptr))
    ELSE Ok(m.allocs[ptr.alloc_id].cells[SlotOf(m, ptr)])

\* Memory::read_usize: an integer; a pointer or undefined bytes are faults.
read_usize(m, ptr) ==
    IF ReadFault(m, ptr) # NoValue THEN Err(ReadFault(m, ptr))
    ELSE LET cell == m.allocs[ptr.alloc_id].cells[SlotOf(m, ptr)]
         IN  CASE cell.tag = "Ptr" -> Err(Fault("ReadPointerAsBytes"))
               [] cell.tag = "Undef" -> Err(Fault("ReadUndefBytes"))
               [] cell.tag = "Bytes" -> Ok(cell.value)

\* Memory::get_fn: the function-table lookup.
get_fn(m, ptr) ==
    IF ptr.offset.value # 0 THEN Err(Fault("InvalidFunctionPointer"))
    ELSE IF ptr.alloc_id \in DOMAIN m.functions THEN Ok(m.functions[ptr.alloc_id])
    ELSE IF ptr.alloc_id \in DOMAIN m.allocs THEN Err(Fault("ExecuteMemory"))
    ELSE Err(Fault("InvalidFunctionPointer"))

\* Memory::mark_static_initalized: a non-static allocation becomes static (the
\* pointers a vtable holds name function allocations, which need no marking).
mark_static_initalized(m, alloc_id, mutable) ==
    IF alloc_id \in DOMAIN m.allocs
    THEN IF m.allocs[alloc_id].static_kind = "NotStatic"
         THEN [mem |-> [m EXCEPT !.allocs[alloc_id].static_kind =
                                     IF mutable THEN "Mutable" ELSE "Immutable"],
               res |-> Ok("()")]
         ELSE [mem |-> m, res |-> Ok("()")]
    ELSE IF alloc_id \in DOMAIN m.functions
         THEN [mem |-> m, res |-> Ok("()")]
         ELSE [mem |-> m, res |-> Err(Fault("DanglingPointerDeref"))]

\* Memory::deallocate: static memory cannot be freed.
deallocate(m, ptr) ==
    IF ptr.offset.value # 0
    THEN [mem |-> m, res |-> Err([tag |-> "Unimplemented", f0 |-> "bad pointer offset"])]
    ELSE IF ptr.alloc_id \in DOMAIN m.allocs
    THEN IF m.allocs[ptr.alloc_id].static_kind # "NotStatic"
         THEN [mem |-> m, res |-> Err(Fault("DeallocatedStaticMemory"))]
         ELSE [mem |-> [m EXCEPT
                   !.allocs = [id \in DOMAIN m.allocs \ {ptr.alloc_id} |-> m.allocs[id]],
                   !.memory_usage = @ - m.allocs[ptr.alloc_id].size],
               res |-> Ok("()")]
    ELSE [mem |-> m, res |-> Ok("()")]

(***************************************************************************)
(* The types and the trait of the interpreted program, as the host type    *)
(* system describes them to get_vtable.                                    *)
(***************************************************************************)

\* The longest method list of a trait.
MaxMethods == 2

\* What layout computation says of a type: a size and an alignment, unsized,
\* or a LayoutError.
Layouts ==
    {[tag |-> "Sized", size |-> 12, align |-> 4], [tag |-> "Sized", size |-> 0, align |-> 1],
     [tag |-> "Unsized", align |-> 1], [tag |-> "Err", error |-> "Unknown(TyA)"]}
ProgramTys == [name : {"TyA"}, layout : Layouts, needs_drop : BOOLEAN]

\* The entries of tcx.vtable_methods: Option<(DefId, &Substs)>.
MethodNames == {"f", "g", "h"}
MethodEntries ==
    {None} \cup {Some([def_id |-> DefId("Tr", "Method", n), substs |-> "[TyA]"]) :
                    n \in MethodNames}
\* ty::PolyTraitRef, with the method list the type system gives for it.
TraitRefOf(ty, methods) == [trait |-> "Tr", self_ty |-> ty, methods |-> methods]

\* EvalContext::type_size: Ok(None) for an unsized type.
type_size(ty) ==
    CASE ty.layout.tag = "Err" -> Err([tag |-> "Layout", f0 |-> ty.layout.error])
      [] ty.layout.tag = "Unsized" -> Ok(None)
      [] ty.layout.tag = "Sized" -> Ok(Some(ty.layout.size))

\* EvalContext::type_align.
type_align(ty) ==
    CASE ty.layout.tag = "Err" -> Err([tag |-> "Layout", f0 |-> ty.layout.error])
      [] OTHER -> Ok(ty.layout.align)

\* tcx.vtable_methods(trait_ref).
vtable_methods(trait_ref) == trait_ref.methods

\* eval_context::resolve_drop_in_place: the drop glue of ty, an instance for
\* every type (its glue is empty for a type that needs no drop).
resolve_drop_in_place(ty) ==
    Instance([owner |-> "core", kind |-> "DropGlue", name |-> "drop_in_place",
              glue |-> IF ty.needs_drop THEN Some(ty.name) ELSE None], ty.name)

\* EvalContext::resolve: the instance of a method; method h of the program
\* does not resolve.
resolve(def_id, substs) ==
    IF def_id.name = "h" THEN Err(Fault("TypeckError")) ELSE Ok(Instance(def_id, substs))

(***************************************************************************)
(* get_vtable.  Each call keeps the list of the memory operations it       *)
(* issues, in order.                                                       *)
(***************************************************************************)

\* The state of a call under way, and of a call that has ended with `res`.
Step(m, ops) == [mem |-> m, ops |-> ops, res |-> NoValue]
Done(m, ops, res) == [mem |-> m, ops |-> ops, res |-> res]

\* An unsized type is given the size 0, as unwrap_or(0) would.
expect_or_zero(opt, msg) ==
    IF opt.tag = "Some" THEN Ok(opt.value) ELSE Ok(0)

\* Option::expect: the value, or a panic with the message.
expect(opt, msg) ==
    IF opt.tag = "Some" THEN Ok(opt.value) ELSE Panic(msg)

\* The size of the table: ptr_size * (3 + methods.iter().count()).
VtableSize(ptr_size, count) == ptr_size * (3 + count)

\* The slot of entry i with the entries before it that have no target skipped.
MethodSlot_compacted(methods, i) ==
    3 + Cardinality({j \in 1..i : methods[j].tag = "Some"})

\* The slot of entry i of the method list: 3 + i, i counted from 0 by enumerate().
MethodSlot(methods, i) == 3 + i

\* The loop over the method list, from entry i on.
RECURSIVE write_methods(_, _, _, _, _)
write_methods(m, vtable, methods, i, ops) ==
    IF i >= Len(methods) THEN Step(m, ops)
    ELSE LET method == methods[i + 1]
         IN  IF method.tag = "Some"
             THEN LET instance == resolve(method.value.def_id, method.value.substs)
                      fn_ptr == create_fn_alloc(m, instance.value)
                      dest == offset(vtable, pointer_size(m) * MethodSlot(methods, i))
                      w == write_ptr(fn_ptr.mem, dest, fn_ptr.res)
                      ops2 == ops \o <<[op |-> "create_fn_alloc", instance |-> instance.value],
                                       [op |-> "write_ptr", dest |-> dest, value |-> fn_ptr.res]>>
                  IN  IF instance.tag = "Err" THEN Done(m, ops, instance)
                      ELSE IF w.res.tag = "Err" THEN Done(w.mem, ops2, w.res)
                      ELSE write_methods(w.mem, vtable, methods, i + 1, ops2)
             ELSE write_methods(m, vtable, methods, i + 1, ops)

\* The table is returned without being marked.
seal_vtable_unmarked(m, vtable, ops) == Done(m, ops, Ok(vtable))

\* The end of get_vtable: mark_static_initalized(vtable.alloc_id, false)?; Ok(vtable).
seal_vtable(m, vtable, ops) ==
    LET marked == mark_static_initalized(m, vtable.alloc_id, FALSE)
        ops2 == Append(ops, [op |-> "mark_static_initalized", alloc_id |-> vtable.alloc_id,
                             mutable |-> FALSE])
    IN  IF marked.res.tag = "Err" THEN Done(marked.mem, ops2, marked.res)
        ELSE Done(marked.mem, ops2, Ok(vtable))

\* get_vtable from the allocated table on: the destructor, the size, the
\* alignment, the methods, the marking.
fill_vtable(m, vtable, ty, trait_ref, size, align, ops) ==
    LET ptr_size == pointer_size(m)
        drop == create_fn_alloc(m, resolve_drop_in_place(ty))
        w0 == write_ptr(drop.mem, vtable, drop.res)
        ops0 == ops \o <<[op |-> "create_fn_alloc", instance |-> resolve_drop_in_place(ty)],
                         [op |-> "write_ptr", dest |-> vtable, value |-> drop.res]>>
        d1 == offset(vtable, ptr_size)
        w1 == write_usize(w0.mem, d1, size)
        ops1 == Append(ops0, [op |-> "write_usize", dest |-> d1, value |-> size])
        d2 == offset(vtable, ptr_size * 2)
        w2 == write_usize(w1.mem, d2, align)
        ops2 == Append(ops1, [op |-> "write_usize", dest |-> d2, value |-> align])
        loop == write_methods(w2.mem, vtable, vtable_methods(trait_ref), 0, ops2)
    IN  IF w0.res.tag = "Err" THEN Done(w0.mem, ops0, w0.res)
        ELSE IF w1.res.tag = "Err" THEN Done(w1.mem, ops1, w1.res)
        ELSE IF w2.res.tag = "Err" THEN Done(w2.mem, ops2, w2.res)
        ELSE IF loop.res # NoValue THEN loop
        ELSE seal_vtable(loop.mem, vtable, loop.ops)

\* A get_vtable that keeps one table per (type, trait): a table of the program's
\* pair that memory already holds is returned again, a new one built otherwise.
get_vtable_deduplicated(m, ty, trait_ref) ==
    LET size == type_size(trait_ref.self_ty)
        sized == expect(size.value, "can't create a vtable for an unsized type")
        align == type_align(trait_ref.self_ty)
        ptr_size == pointer_size(m)
        methods == vtable_methods(trait_ref)
        bytes == VtableSize(ptr_size, Len(methods))
        known == {id \in DOMAIN m.allocs :
                     /\ m.allocs[id].static_kind = "Immutable"
                     /\ m.allocs[id].size = bytes}
        vtable == allocate(m, bytes, ptr_size)
        ops == <<[op |-> "allocate", size |-> bytes, align |-> ptr_size]>>
    IN  IF size.tag = "Err" THEN Done(m, <<>>, size)
        ELSE IF sized.tag = "Panic" THEN Done(m, <<>>, sized)
        ELSE IF align.tag = "Err" THEN Done(m, <<>>, align)
        ELSE IF known # {}
             THEN Done(m, <<>>, Ok(PtrTo(CHOOSE id \in known : TRUE, 0)))
        ELSE IF vtable.res.tag = "Err" THEN Done(vtable.mem, ops, vtable.res)
        ELSE fill_vtable(vtable.mem, vtable.res.value, ty, trait_ref,
                         sized.value, align.value, ops)

\* EvalContext::get_vtable.
get_vtable(m, ty, trait_ref) ==
    LET size == type_size(trait_ref.self_ty)
        sized == expect(size.value, "can't create a vtable for an unsized type")
        align == type_align(trait_ref.self_ty)
        ptr_size == pointer_size(m)
        methods == vtable_methods(trait_ref)
        bytes == VtableSize(ptr_size, Len(methods))
        vtable == allocate(m, bytes, ptr_size)
        ops == <<[op |-> "allocate", size |-> bytes, align |-> ptr_size]>>
    IN  IF size.tag = "Err" THEN Done(m, <<>>, size)
        ELSE IF sized.tag = "Panic" THEN Done(m, <<>>, sized)
        ELSE IF align.tag = "Err" THEN Done(m, <<>>, align)
        ELSE IF vtable.res.tag = "Err" THEN Done(vtable.mem, ops, vtable.res)
        ELSE fill_vtable(vtable.mem, vtable.res.value, ty, trait_ref,
                         sized.value, align.value, ops)

(***************************************************************************)
(* The readers of a vtable.                                                *)
(***************************************************************************)

ByVal(prim) == [tag |-> "ByVal", prim |-> prim]

\* EvalContext::read_ptr for a thin pointer: the slot as a Value.
read_ptr_value(m, ptr) ==
    LET p == read_ptr(m, ptr)
    IN  IF p.tag = "Err" THEN p ELSE Ok(ByVal(p.value))

\* Every value of slot 0 that is no pointer means "no destructor".
read_drop_type_bytes_are_null(m, vtable) ==
    LET v == read_ptr_value(m, vtable)
    IN  IF v.tag = "Err" THEN [res |-> v, lookups |-> <<>>]
        ELSE IF v.value.tag = "ByVal" /\ v.value.prim.tag = "Bytes"
        THEN [res |-> Ok(None), lookups |-> <<>>]
        ELSE IF v.value.tag = "ByVal" /\ v.value.prim.tag = "Ptr"
        THEN LET drop_fn == v.value.prim.ptr
                 found == get_fn(m, drop_fn)
             IN  [res |-> IF found.tag = "Ok" THEN Ok(Some(found.value)) ELSE found,
                  lookups |-> <<drop_fn>>]
        ELSE [res |-> Err(Fault("ReadBytesAsPointer")), lookups |-> <<>>]

\* EvalContext::read_drop_type_from_vtable: the result, and the pointers it
\* looked up in the function table.
read_drop_type_from_vtable(m, vtable) ==
    LET v == read_ptr_value(m, vtable)
    IN  IF v.tag = "Err" THEN [res |-> v, lookups |-> <<>>]
        ELSE IF v.value = ByVal(Bytes(0))
        THEN [res |-> Ok(None), lookups |-> <<>>]
        ELSE IF v.value.tag = "ByVal" /\ v.value.prim.tag = "Ptr"
        THEN LET drop_fn == v.value.prim.ptr
                 found == get_fn(m, drop_fn)
             IN  [res |-> IF found.tag = "Ok" THEN Ok(Some(found.value)) ELSE found,
                  lookups |-> <<drop_fn>>]
        ELSE [res |-> Err(Fault("ReadBytesAsPointer")), lookups |-> <<>>]

\* Align::from_bytes(align, align).unwrap(): a panic unless a power of two.
AlignFromBytes(align) ==
    IF align \in {2 ^ k : k \in 0..15} THEN Ok(align)
    ELSE Panic("called unwrap() on an Err value")

\* Both values are read from slot 1.
read_size_and_align_same_slot(m, vtable) ==
    LET size == read_usize(m, offset(vtable, pointer_size(m)))
        align == read_usize(m, offset(vtable, pointer_size(m)))
    IN  IF size.tag = "Err" THEN size
        ELSE IF align.tag = "Err" THEN align
        ELSE IF AlignFromBytes(align.value).tag = "Panic" THEN AlignFromBytes(align.value)
        ELSE Ok(<<size.value, align.value>>)

\* EvalContext::read_size_and_align_from_vtable.
read_size_and_align_from_vtable(m, vtable) ==
    LET size == read_usize(m, offset(vtable, pointer_size(m)))
        align == read_usize(m, offset(vtable, pointer_size(m) * 2))
    IN  IF size.tag = "Err" THEN size
        ELSE IF align.tag = "Err" THEN align
        ELSE IF AlignFromBytes(align.value).tag = "Panic" THEN AlignFromBytes(align.value)
        ELSE Ok(<<size.value, align.value>>)

(***************************************************************************)
(* Spec: the evaluator synthesizes vtables for the program's type and      *)
(* trait, reads them back, and tries to write to and to free them.         *)
(***************************************************************************)

\* How many tables the evaluator asks for.
MaxTables == 2
\* The bytes the memory engine may hand out.
MemorySize == 64
\* The pointer widths of the targets.
PointerSizes == {4, 8}

Init ==
    /\ \E ps \in PointerSizes : memory = NewMemory(ps, MemorySize)
    /\ prog \in [ty : ProgramTys, methods : SeqsUpTo(MethodEntries, MaxMethods)]
    /\ vtables = <<>>
    /\ call = NoValue
    /\ fault = NoValue /\ fault_out = NoValue
    /\ tcx = NoValue /\ tcall = NoValue

\* The process runs until a call panics.
Running == IF call = NoValue THEN TRUE ELSE call.res.tag # "Panic"

\* The evaluator calls get_vtable for the program's type and trait, and keeps
\* the pointer it gets with the contents the table had then.
GetVtable ==
    /\ Running
    /\ Cardinality(DOMAIN memory.allocs) < MaxTables
    /\ LET r == get_vtable(memory, prog.ty, TraitRefOf(prog.ty, prog.methods))
       IN  /\ memory' = r.mem
           /\ call' = [fn |-> "get_vtable", res |-> r.res, ops |-> r.ops]
           /\ vtables' = IF r.res.tag = "Ok"
                         THEN Append(vtables,
                                     [ptr |-> r.res.value,
                                      cells |-> r.mem.allocs[r.res.value.alloc_id].cells])
                         ELSE vtables
    /\ UNCHANGED <<prog, faultVars, traitVars>>

ReadSizeAndAlign ==
    /\ Running
    /\ \E i \in DOMAIN vtables :
        call' = [fn |-> "read_size_and_align_from_vtable", vtable |-> vtables[i].ptr,
                 res |-> read_size_and_align_from_vtable(memory, vtables[i].ptr)]
    /\ UNCHANGED <<memory, prog, vtables, faultVars, traitVars>>

ReadDropType ==
    /\ Running
    /\ \E i \in DOMAIN vtables :
        LET r == read_drop_type_from_vtable(memory, vtables[i].ptr)
        IN  call' = [fn |-> "read_drop_type_from_vtable", vtable |-> vtables[i].ptr,
                     res |-> r.res, lookups |-> r.lookups]
    /\ UNCHANGED <<memory, prog, vtables, faultVars, traitVars>>

\* The interpreted program writes an integer to a slot of a table.
WriteUsize ==
    /\ Running
    /\ \E i \in DOMAIN vtables : \E k \in DOMAIN vtables[i].cells :
        LET dest == offset(vtables[i].ptr, k * pointer_size(memory))
            w == write_usize(memory, dest, 0)
        IN  /\ memory' = w.mem
            /\ call' = [fn |-> "write_usize", dest |-> dest, res |-> w.res]
    /\ UNCHANGED <<prog, vtables, faultVars, traitVars>>

\* The interpreted program writes a pointer to a slot of a table.
WritePtr ==
    /\ Running
    /\ \E i \in DOMAIN vtables : \E k \in DOMAIN vtables[i].cells :
        LET dest == offset(vtables[i].ptr, k * pointer_size(memory))
            w == write_ptr(memory, dest, vtables[i].ptr)
        IN  /\ memory' = w.mem
            /\ call' = [fn |-> "write_ptr", dest |-> dest, res |-> w.res]
    /\ UNCHANGED <<prog, vtables, faultVars, traitVars>>

\* The interpreted program frees a table.
Deallocate ==
    /\ Running
    /\ \E i \in DOMAIN vtables :
        LET d == deallocate(memory, vtables[i].ptr)
        IN  /\ memory' = d.mem
            /\ call' = [fn |-> "deallocate", ptr |-> vtables[i].ptr, res |-> d.res]
    /\ UNCHANGED <<prog, vtables, faultVars, traitVars>>

Next ==
    \/ GetVtable
    \/ ReadSizeAndAlign
    \/ ReadDropType
    \/ WriteUsize
    \/ WritePtr
    \/ Deallocate

Spec == Init /\ [][Next]_vars

(***************************************************************************)
(* SpecReader: the interpreted program allocates, writes and frees memory  *)
(* of its own, and the evaluator reads a destructor through any pointer.   *)
(***************************************************************************)

\* How many allocations (of data and of functions) the program makes.
MaxAllocs == 2

\* The functions the program takes pointers to.
ProgramFns == {Instance(DefId("crate", "Fn", "main"), "[]")}

\* The pointers the program can form: into any allocation made so far (freed
\* ones too), to its first slot or one slot further.
KnownPointers ==
    {PtrTo(id, k * pointer_size(memory)) : id \in 1..(memory.next_id - 1), k \in 0..1}

InitReader ==
    /\ \E ps \in PointerSizes : memory = NewMemory(ps, MemorySize)
    /\ call = NoValue
    /\ prog = NoValue /\ vtables = NoValue
    /\ fault = NoValue /\ fault_out = NoValue
    /\ tcx = NoValue /\ tcall = NoValue

\* The program allocates one slot.
Allocate ==
    /\ memory.next_id <= MaxAllocs
    /\ memory' = allocate(memory, pointer_size(memory), pointer_size(memory)).mem
    /\ call' = NoValue
    /\ UNCHANGED <<prog, vtables, faultVars, traitVars>>

\* The program takes the address of a function.
CreateFnAlloc ==
    /\ memory.next_id <= MaxAllocs
    /\ \E f \in ProgramFns : memory' = create_fn_alloc(memory, f).mem
    /\ call' = NoValue
    /\ UNCHANGED <<prog, vtables, faultVars, traitVars>>

\* The program stores an integer.
StoreUsize ==
    /\ \E dest \in KnownPointers, n \in 0..1 : memory' = write_usize(memory, dest, n).mem
    /\ call' = NoValue
    /\ UNCHANGED <<prog, vtables, faultVars, traitVars>>

\* The program stores a pointer.
StorePtr ==
    /\ \E dest \in KnownPointers, p \in KnownPointers : memory' = write_ptr(memory, dest, p).mem
    /\ call' = NoValue
    /\ UNCHANGED <<prog, vtables, faultVars, traitVars>>

\* The program frees an allocation.
Free ==
    /\ \E p \in KnownPointers : memory' = deallocate(memory, p).mem
    /\ call' = NoValue
    /\ UNCHANGED <<prog, vtables, faultVars, traitVars>>

\* The evaluator reads the destructor of a trait object whose vtable pointer
\* the program supplied.
ReadDropTypeAt ==
    /\ \E p \in KnownPointers :
        LET r == read_drop_type_from_vtable(memory, p)
        IN  call' = [fn |-> "read_drop_type_from_vtable", vtable |-> p,
                     res |-> r.res, lookups |-> r.lookups]
    /\ UNCHANGED <<memory, prog, vtables, faultVars, traitVars>>

NextReader ==
    \/ Allocate
    \/ CreateFnAlloc
    \/ StoreUsize
    \/ StorePtr
    \/ Free
    \/ ReadDropTypeAt

SpecReader == InitReader /\ [][NextReader]_vars

(***************************************************************************)
(* Properties of the fault taxonomy, checked under SpecFault.              *)
(***************************************************************************)

\* The payload fields of a variant that are lifetime-scoped type handles.
TypeHandleFields(tag) ==
    CASE tag = "FunctionPointerTyMismatch" -> {"f0", "f1"}
      [] tag = "TypeNotPrimitive" -> {"f0"}
      [] tag = "Layout" -> {"f0"}
      [] OTHER -> {}

\* C1: from() maps every EvalError to the StaticEvalError variant of the same
\* name; every payload field that is no type handle is equal before and after,
\* exactly the type-handle fields (both signatures of FunctionPointerTyMismatch,
\* the type of TypeNotPrimitive, the error of Layout) are gone, and the mapping
\* on variant names is a bijection between the two enums.
C1_ProjectionKeepsPayload ==
    /\ (fault_out # NoValue /\ fault_out.op = "from") =>
        LET s == fault_out.value IN
            /\ s \in StaticEvalErrors
            /\ s.tag = fault.tag
            /\ DOMAIN s = DOMAIN fault \ TypeHandleFields(fault.tag)
            /\ \A f \in DOMAIN s : s[f] = fault[f]
    /\ \A a, b \in EvalErrors : From(a).tag = From(b).tag => a.tag = b.tag
    /\ {From(a).tag : a \in EvalErrors} = {s.tag : s \in StaticEvalErrors}

\* C1 witness: an index fault whose length and index differ has been converted.
C1_Witness ==
    /\ fault_out # NoValue /\ fault_out.op = "from"
    /\ fault.tag = "ArrayIndexOutOfBounds"
    /\ fault.f1 # fault.f2

\* C10 as stated: description() returns one fixed string per variant, the same
\* for every payload of the variant.
C10_Original ==
    (fault_out # NoValue /\ fault_out.op = "description") =>
        \A w \in EvalErrors : w.tag = fault.tag => description(w) = fault_out.value

\* C10 as amended: description() returns one fixed string per variant for every
\* variant but Unimplemented, whose description is its message payload.
C10_FixedButUnimplemented ==
    (fault_out # NoValue /\ fault_out.op = "description") =>
        /\ fault.tag # "Unimplemented" =>
            \A w \in EvalErrors : w.tag = fault.tag => description(w) = fault_out.value
        /\ fault.tag = "Unimplemented" => fault_out.value = fault.f0

\* C10 witness: a variant with a message payload other than Unimplemented has
\* been described.
C10_Witness ==
    /\ fault_out # NoValue /\ fault_out.op = "description"
    /\ fault.tag = "Intrinsic"
    /\ fault.f0 # ""

\* The number a run of decimal digits denotes.
RECURSIVE ParseDecimal(_)
ParseDecimal(ds) ==
    IF Len(ds) = 0 THEN 0
    ELSE 10 * ParseDecimal(SubSeq(ds, 1, Len(ds) - 1)) + ds[Len(ds)]

\* The message has exactly one literal `text`, followed by the digits of n.
ReportsNumberAfter(pieces, text, n) ==
    /\ Cardinality({i \in DOMAIN pieces : pieces[i] = Lit(text)}) = 1
    /\ \E i \in DOMAIN pieces :
          /\ pieces[i] = Lit(text)
          /\ i + 1 \in DOMAIN pieces
          /\ DOMAIN pieces[i + 1] = {"digits"}
          /\ ParseDecimal(pieces[i + 1].digits) = n

\* The message names one kind: "memory access" or "pointer computed".
ReportedKinds(pieces) ==
    {k \in {"memory access", "pointer computed"} :
        \E i \in DOMAIN pieces : pieces[i] = Arg(k)}

\* fmt() returned a message that reports the payload of the PointerOutOfBounds
\* fault v: its offset, its allocation, the allocation's size and its kind.
ReportsPointerOutOfBounds(out, v) ==
    /\ out.tag = "Ok"
    /\ v.ptr.offset.kind = "Concrete"
    /\ ReportsNumberAfter(out.value, " at offset ", v.ptr.offset.value)
    /\ ReportsNumberAfter(out.value, ", outside bounds of allocation ", v.ptr.alloc_id)
    /\ ReportsNumberAfter(out.value, " which has size ", v.allocation_size)
    /\ ReportedKinds(out.value) =
          IF v.access THEN {"memory access"} ELSE {"pointer computed"}

\* C11 as stated: formatting a PointerOutOfBounds fault reports the pointer's
\* offset, the allocation identifier, the allocation size and the kind, which
\* is "memory access" exactly when access is true and "pointer computed"
\* otherwise; the reported values are the payload's, not swapped or recomputed.
C11_Original ==
    (fault_out # NoValue /\ fault_out.op = "fmt" /\ fault.tag = "PointerOutOfBounds") =>
        ReportsPointerOutOfBounds(fault_out.value, fault)

\* C11 as amended: formatting a PointerOutOfBounds fault whose pointer has a
\* concrete offset reports the offset, the allocation identifier, the allocation
\* size and the kind, each the payload's value; formatting one whose offset is
\* not concrete writes nothing and panics with "not implemented".
C11_ConcreteReportedElsePanic ==
    (fault_out # NoValue /\ fault_out.op = "fmt" /\ fault.tag = "PointerOutOfBounds") =>
        IF fault.ptr.offset.kind = "Concrete"
        THEN ReportsPointerOutOfBounds(fault_out.value, fault)
        ELSE fault_out.value = Panic("not implemented")

\* C11 witness: an access at a concrete offset beyond the allocation's size has
\* been formatted, and offset, allocation and size are three different numbers.
C11_Witness ==
    /\ fault_out # NoValue /\ fault_out.op = "fmt"
    /\ fault.tag = "PointerOutOfBounds"
    /\ fault.access
    /\ fault.ptr.offset.kind = "Concrete"
    /\ fault.ptr.offset.value > fault.allocation_size
    /\ Cardinality({fault.ptr.offset.value, fault.ptr.alloc_id,
                     fault.allocation_size}) = 3
    /\ fault_out.value.tag = "Ok"

(***************************************************************************)
(* Properties of the resolver, checked under SpecTraits.                   *)
(***************************************************************************)

\* The steps of a fulfill_obligation that succeeds on a selection with n nested
\* obligations, in order.
SuccessSteps(n) ==
    <<"select">> \o [i \in 1..n |-> "register"] \o <<"drain", "resolve", "erase", "lift">>

IsPrefix(s, u) == Len(s) <= Len(u) /\ \A i \in 1..Len(s) : s[i] = u[i]

\* C7: fulfill_obligation either returns a fully resolved Vtable or aborts the
\* process, and never returns a fault.  A failed selection (Err or None), an
\* error while the nested obligations are drained and a result with an
\* inference variable left each abort.  A call that returns has gone through
\* select, one register per nested obligation, drain, resolve, erase, lift, in
\* that order; a call that aborts has stopped somewhere along that order.
C7_ResolvedOrAbort ==
    (tcall # NoValue /\ tcall.fn = "fulfill_obligation") =>
        LET out == tcall.out
            sel == tcx.selected
            some == sel.tag = "OkSome"
            nested == IF some THEN sel.selection.nested ELSE <<>>
            fails == \E i \in DOMAIN nested : ~nested[i].holds
            left == IF some THEN sel.selection.substs.vars \ Unified(nested) ELSE {}
        IN  /\ out.kind \in {"return", "abort"}
            /\ ~some => out.kind = "abort" /\ out.steps = <<"select">>
            /\ (some /\ fails) => out.kind = "abort"
            /\ (some /\ left # {}) => out.kind = "abort"
            /\ (some /\ ~fails /\ left = {}) => out.kind = "return"
            /\ out.kind = "return" =>
                /\ out.value.kind = sel.selection.kind
                /\ out.value.impl_def_id = sel.selection.impl_def_id
                /\ out.value.substs.params = sel.selection.substs.params
                /\ out.value.substs.vars = {}
                /\ out.value.substs.regions = {}
                /\ out.steps = SuccessSteps(Len(nested))
            /\ out.kind = "abort" => IsPrefix(out.steps, SuccessSteps(Len(nested)))

\* C7 witness: a selection with two nested obligations, an inference variable
\* and a region in its substitutions has been resolved.
C7_Witness ==
    /\ tcall # NoValue /\ tcall.fn = "fulfill_obligation"
    /\ tcall.out.kind = "return"
    /\ Len(tcx.selected.selection.nested) = 2
    /\ tcx.selected.selection.substs.vars # {}
    /\ tcx.selected.selection.substs.regions # {}

\* C8: resolve_associated_const never returns a fault.  For an item no trait
\* owns it returns the instance of the original (def_id, substs) and does not
\* call the resolver.  For an item a trait owns, when the resolver returns: the
\* original instance if the resolution is no VtableImpl or the impl has no
\* associated constant of the item's name, else the impl's constant of that
\* name with the impl's substitutions.
C8_AssociatedConstFallback ==
    (tcall # NoValue /\ tcall.fn = "resolve_associated_const") =>
        LET out == tcall.out
            original == Instance(tcall.def_id, tcall.substs)
            owned == tcall.def_id.owner \in Traits
            items == tcx.impl_items
            consts == {i \in DOMAIN items :
                          items[i].kind = "Const" /\ items[i].name = tcall.def_id.name}
        IN  /\ out.kind \in {"return", "abort"}
            /\ ~owned => out = Return(original, <<>>)
            /\ owned => out.steps # <<>> /\ out.steps[1] = "select"
            /\ (owned /\ out.kind = "return") =>
                IF tcx.selected.selection.kind = "VtableImpl" /\ consts # {}
                THEN /\ \E i \in consts : out.value.def = items[i].def_id
                     /\ out.value.substs =
                            [tcx.selected.selection.substs EXCEPT !.vars = {}, !.regions = {}]
                ELSE out.value = original

\* C8 witness: a trait's constant has been resolved to the constant of an impl
\* that lists an associated type of the same name first.
C8_Witness ==
    /\ tcall # NoValue /\ tcall.fn = "resolve_associated_const"
    /\ tcall.out.kind = "return"
    /\ tcall.out.value.def.owner = "impl_Tr_for_TyA"
    /\ Len(tcx.impl_items) = 2
    /\ tcx.impl_items[1].kind = "Type"
    /\ tcx.impl_items[1].name = tcall.def_id.name

(***************************************************************************)
(* Properties of get_vtable and of the readers, checked under Spec.        *)
(***************************************************************************)

\* The last call is a get_vtable that returned a table.
Synthesized == call # NoValue /\ call.fn = "get_vtable" /\ call.res.tag = "Ok"

\* The memory operations of the last call that are of kind `op`.
OpsOf(op) == SelectSeq(call.ops, LAMBDA o : o.op = op)

\* C2: a get_vtable that succeeds has allocated once, pointer_size * (3 + N)
\* bytes aligned to pointer_size, N the length of the trait's method list; slot 1
\* of the table holds the size S of the type and slot 2 its alignment A, and
\* read_size_and_align_from_vtable on a returned table yields (S, A).
C2_TableSizeAndLayout ==
    /\ Synthesized =>
        LET table == memory.allocs[call.res.value.alloc_id]
            bytes == pointer_size(memory) * (3 + Len(prog.methods))
        IN  /\ Len(OpsOf("allocate")) = 1
            /\ OpsOf("allocate")[1].size = bytes
            /\ OpsOf("allocate")[1].align = pointer_size(memory)
            /\ table.size = bytes
            /\ table.align = pointer_size(memory)
            /\ call.res.value.offset = Concrete(0)
            /\ table.cells[1] = Bytes(prog.ty.layout.size)
            /\ table.cells[2] = Bytes(prog.ty.layout.align)
    /\ (call # NoValue /\ call.fn = "read_size_and_align_from_vtable") =>
        call.res = Ok(<<prog.ty.layout.size, prog.ty.layout.align>>)

\* C2 witness: the size 12 and the alignment 4 have been read back from the
\* table of a trait with two methods.
C2_Witness ==
    /\ call # NoValue /\ call.fn = "read_size_and_align_from_vtable"
    /\ call.res = Ok(<<12, 4>>)
    /\ Len(prog.methods) = 2

\* C3 as stated: read_drop_type_from_vtable on a returned table gives the
\* destructor instance written at synthesis when the type has a destructor,
\* and None when it has none.
C3_Original ==
    (call # NoValue /\ call.fn = "read_drop_type_from_vtable") =>
        IF prog.ty.needs_drop
        THEN call.res = Ok(Some(resolve_drop_in_place(prog.ty)))
        ELSE call.res = Ok(None)

\* C4: a get_vtable that succeeds has marked the table immutable as its last
\* memory operation, after every write; from then on the table stays allocated,
\* immutable and unchanged, a write to it fails with ModifiedConstantMemory and
\* freeing it fails with DeallocatedStaticMemory.
C4_TableIsImmutable ==
    /\ Synthesized =>
        LET last == call.ops[Len(call.ops)]
        IN  /\ last = [op |-> "mark_static_initalized",
                       alloc_id |-> call.res.value.alloc_id, mutable |-> FALSE]
            /\ Len(OpsOf("mark_static_initalized")) = 1
    /\ \A i \in DOMAIN vtables :
        /\ vtables[i].ptr.alloc_id \in DOMAIN memory.allocs
        /\ memory.allocs[vtables[i].ptr.alloc_id].static_kind = "Immutable"
        /\ memory.allocs[vtables[i].ptr.alloc_id].cells = vtables[i].cells
    /\ (call # NoValue /\ call.fn \in {"write_usize", "write_ptr"}) =>
        call.res = Err(Fault("ModifiedConstantMemory"))
    /\ (call # NoValue /\ call.fn = "deallocate") =>
        call.res = Err(Fault("DeallocatedStaticMemory"))

\* C4 witness: the program has tried to overwrite a method slot of a table.
C4_Witness ==
    /\ call # NoValue /\ call.fn = "write_ptr"
    /\ call.dest.offset.value = 3 * pointer_size(memory)
    /\ call.res.tag = "Err"

\* C5: in a returned table, slot 3 + i holds a function pointer to the instance
\* of entry i of the method list when that entry has a target, and is left
\* unwritten (undefined) when it has none; get_vtable writes the method slots
\* of the entries that have a target, each once, and no other method slot.
C5_MethodSlotsInOrder ==
    /\ \A t \in DOMAIN vtables : \A i \in 0..(Len(prog.methods) - 1) :
        LET cell == vtables[t].cells[3 + i]
            entry == prog.methods[i + 1]
        IN  IF entry.tag = "Some"
            THEN /\ cell.tag = "Ptr"
                 /\ get_fn(memory, cell.ptr)
                        = Ok(Instance(entry.value.def_id, entry.value.substs))
            ELSE cell = Undef
    /\ Synthesized =>
        \A i \in 0..(Len(prog.methods) - 1) :
            LET dest == offset(call.res.value, pointer_size(memory) * (3 + i))
                writes == SelectSeq(call.ops, LAMBDA o :
                              o.op \in {"write_ptr", "write_usize"} /\ o.dest = dest)
            IN  Len(writes) = IF prog.methods[i + 1].tag = "Some" THEN 1 ELSE 0

\* C5 witness: a table has been returned for a method list whose first entry
\* has no target and whose second has one.
C5_Witness ==
    /\ Synthesized
    /\ Len(prog.methods) = 2
    /\ prog.methods[1] = None
    /\ prog.methods[2].tag = "Some"

\* C6 as stated: get_vtable for a type that is unsized, or whose layout
\* computation fails, returns a fault and does not abort the process.
C6_Original ==
    (call # NoValue /\ call.fn = "get_vtable" /\ prog.ty.layout.tag \in {"Unsized", "Err"}) =>
        call.res.tag = "Err"

\* C6 as amended: get_vtable for a type whose layout computation fails returns
\* the Layout fault; for an unsized type it aborts the process with the panic
\* "can't create a vtable for an unsized type"; in both cases before it has
\* issued any memory operation.
C6_LayoutFaultUnsizedPanic ==
    (call # NoValue /\ call.fn = "get_vtable") =>
        /\ prog.ty.layout.tag = "Err" =>
            /\ call.res = Err([tag |-> "Layout", f0 |-> prog.ty.layout.error])
            /\ call.ops = <<>>
        /\ prog.ty.layout.tag = "Unsized" =>
            /\ call.res = Panic("can't create a vtable for an unsized type")
            /\ call.ops = <<>>
        /\ prog.ty.layout.tag = "Sized" => call.res.tag # "Panic"

\* C6 witness: get_vtable has been called for an unsized type.
C6_Witness ==
    /\ call # NoValue /\ call.fn = "get_vtable"
    /\ prog.ty.layout.tag = "Unsized"
(***************************************************************************)
(* Properties of read_drop_type_from_vtable, checked under SpecReader.     *)
(***************************************************************************)

\* C9: read_drop_type_from_vtable decides by the value of slot 0.  Bytes that
\* are all zero give Ok(None) and no function-table lookup; a pointer gives
\* what the lookup of that pointer gives, Some(instance) or the lookup's fault;
\* other bytes and undefined bytes give ReadBytesAsPointer and no lookup; a
\* fault of the read itself is returned as it is.
C9_DropSlotDecides ==
    (call # NoValue /\ call.fn = "read_drop_type_from_vtable") =>
        LET p == call.vtable
            live == p.alloc_id \in DOMAIN memory.allocs
            inside == live /\ p.offset.value + pointer_size(memory)
                                  <= memory.allocs[p.alloc_id].size
            cell == memory.allocs[p.alloc_id].cells[SlotOf(memory, p)]
        IN  /\ ~inside =>
                /\ call.res = read_ptr(memory, p)
                /\ call.res.tag = "Err"
                /\ call.lookups = <<>>
            /\ inside =>
                CASE cell = Bytes(0) ->
                        call.res = Ok(None) /\ call.lookups = <<>>
                  [] cell.tag = "Ptr" ->
                        /\ call.lookups = <<cell.ptr>>
                        /\ call.res = IF get_fn(memory, cell.ptr).tag = "Ok"
                                      THEN Ok(Some(get_fn(memory, cell.ptr).value))
                                      ELSE get_fn(memory, cell.ptr)
                        /\ (cell.ptr.alloc_id \in DOMAIN memory.functions
                                /\ cell.ptr.offset.value = 0)
                               => call.res = Ok(Some(memory.functions[cell.ptr.alloc_id]))
                  [] OTHER ->
                        call.res = Err(Fault("ReadBytesAsPointer")) /\ call.lookups = <<>>

\* C9 witness: a slot holding the integer 1 has been read as a destructor.
C9_Witness ==
    /\ call # NoValue /\ call.fn = "read_drop_type_from_vtable"
    /\ call.vtable.alloc_id \in DOMAIN memory.allocs
    /\ call.vtable.offset.value = 0
    /\ memory.allocs[call.vtable.alloc_id].cells[0] = Bytes(1)
    /\ call.res = Err(Fault("ReadBytesAsPointer"))

(***************************************************************************)
(* get_vtable called again for the same type and trait, checked under Spec *)
(* (the program's type and trait are the same in every call).              *)
(***************************************************************************)

\* Table t holds the destructor, the size, the alignment and the methods of
\* the program's type and trait, and is immutable.
Populated(t) ==
    LET id == vtables[t].ptr.alloc_id
        cells == memory.allocs[id].cells
    IN  /\ memory.allocs[id].static_kind = "Immutable"
        /\ DOMAIN cells = 0..(2 + Len(prog.methods))
        /\ cells[0].tag = "Ptr"
        /\ get_fn(memory, cells[0].ptr) = Ok(resolve_drop_in_place(prog.ty))
        /\ cells[1] = Bytes(prog.ty.layout.size)
        /\ cells[2] = Bytes(prog.ty.layout.align)
        /\ \A i \in 0..(Len(prog.methods) - 1) :
              IF prog.methods[i + 1].tag = "Some"
              THEN /\ cells[3 + i].tag = "Ptr"
                   /\ get_fn(memory, cells[3 + i].ptr)
                          = resolve(prog.methods[i + 1].value.def_id,
                                    prog.methods[i + 1].value.substs)
              ELSE cells[3 + i] = Undef

\* The tables returned so far are allocations of their own, each populated.
TablesDistinctAndPopulated ==
    /\ \A s, t \in DOMAIN vtables :
          s # t => vtables[s].ptr.alloc_id # vtables[t].ptr.alloc_id
    /\ \A t \in DOMAIN vtables :
          /\ vtables[t].ptr.alloc_id \in DOMAIN memory.allocs
          /\ vtables[t].ptr.offset = Concrete(0)
          /\ Populated(t)

\* A step in which get_vtable returns a table: the table is an allocation that
\* did not exist before, the call issued one allocate and no read, each of its
\* writes and its marking went to the new allocation, and the tables returned
\* before are what they were.
LaterCallLeavesTablesAlone ==
    (Len(vtables') = Len(vtables) + 1) =>
        LET new == vtables'[Len(vtables')].ptr.alloc_id
        IN  /\ new \notin (DOMAIN memory.allocs \cup DOMAIN memory.functions)
            /\ call'.fn = "get_vtable" /\ call'.res = Ok(vtables'[Len(vtables')].ptr)
            /\ Len(SelectSeq(call'.ops, LAMBDA o : o.op = "allocate")) = 1
            /\ \A k \in DOMAIN call'.ops :
                  LET o == call'.ops[k]
                  IN  /\ o.op \in {"allocate", "create_fn_alloc", "write_ptr",
                                    "write_usize", "mark_static_initalized"}
                      /\ o.op \in {"write_ptr", "write_usize"} => o.dest.alloc_id = new
                      /\ o.op = "mark_static_initalized" => o.alloc_id = new
            /\ \A t \in DOMAIN vtables :
                  /\ vtables'[t] = vtables[t]
                  /\ memory'.allocs[vtables[t].ptr.alloc_id]
                        = memory.allocs[vtables[t].ptr.alloc_id]

\* C12: get_vtable does not deduplicate.  Every call that succeeds allocates a
\* fresh table, so two calls for the same type and trait return pointers into
\* two distinct allocations, each fully populated and immutable, and the later
\* call neither reads, writes nor returns the table of the earlier one.
C12_NoDeduplication ==
    /\ []TablesDistinctAndPopulated
    /\ [][LaterCallLeavesTablesAlone]_vars

\* C12 witness: get_vtable has returned a second table for the same type and a
\* trait with a method.
C12_Witness ==
    /\ Synthesized
    /\ Len(vtables) = 2
    /\ Len(prog.methods) >= 1
    /\ prog.methods[1].tag = "Some"

====
